---- MODULE Spec2Model ----
(***************************************************************************)
(* Model of src/cache.py: class MarqoSemanticCache, a semantic cache of    *)
(* LLM answers kept in one index of a Marqo vector-search service.         *)
(*                                                                         *)
(* The service is the collaborator behind self.marqo_client.  Its state    *)
(* (the index, the documents, the searchable view of the documents) and    *)
(* the answers it gives to create_index, add_documents and search are      *)
(* modelled at the three call sites.  Everything the class itself does     *)
(* (the except dispatch of _ensure_index_exists, the top_k sentinel, the   *)
(* filter, the sort and the selection of get_cached_answer) is translated  *)
(* statement by statement.                                                 *)
(***************************************************************************)
EXTENDS Integers, Sequences, FiniteSets, TLC

\* ---------------------------------------------------------------- bounds --
\* Most documents the index holds in a run.
MaxDocs == 2

\* ------------------------------------------------------------ value sets --
\* Python's None.
None == "None"
\* The sentinel default of get_cached_answer's top_k parameter.
SENTINEL == -1
\* The index name both managers are constructed with (__init__ default).
INDEX_NAME == "llm_cache"

Managers == {"m1", "m2"}
\* The questions get_cached_answer is called with.
Questions == {"q1"}
\* Arguments (question, answer, rephrased_query) of store_llm_response; the
\* code validates none of them, so None is among them.  Two triples share a
\* rephrased query and differ in the answer.
StoreArgs == { <<"q1", "a1", "r1">>, <<"q1", "a2", "r2">>, <<None, "a2", "r1">> }
RephrasedQueries == { t[3] : t \in StoreArgs }
\* Similarity scores on the service's scale, as integers.
Scores == {1, 2}
\* score_threshold values: below, between and above the scores.
Thresholds == {1, 2, 3}
\* top_k as passed to get_cached_answer (sentinel, zero, positive).
TopKArgs == {SENTINEL, 0, 1, 2}
\* top_k as passed to __init__ (1 is the parameter's default).
TopKDefaults == {1, 2}
\* top_k of the two instances that store and look up.
CtorTopK == [m \in Managers |-> IF m = "m1" THEN 1 ELSE 2]

\* ------------------------------------------------------------ exceptions --
NoError == [type |-> "none"]
\* marqo.errors.MarqoWebError with its .code
MarqoWebError(code) == [type |-> "MarqoWebError", code |-> code]
\* marqo.errors.MarqoError raised by the client itself (not a web error)
MarqoError(msg) == [type |-> "MarqoError", message |-> msg]
\* raise MarqoError(f"Failed to create index ...: {e}") from e
WrappedMarqoError(e) ==
  [type |-> "MarqoError", message |-> "Failed to create index", cause |-> e]

\* What create_index can answer with when it does not succeed/already exist.
CreateFailures ==
  { MarqoWebError("invalid_index_name"), MarqoError("backend") }

VARIABLES
  indexes,     \* number of indexes named INDEX_NAME in the service
  docs,        \* documents of the index, in insertion order
  searchable,  \* documents the service's search sees (refreshed view)
  mgr,         \* the MarqoSemanticCache instances
  nstores,     \* number of store_llm_response calls that returned
  last         \* the last store/lookup call: its arguments and outcome

vars == <<indexes, docs, searchable, mgr, nstores, last>>

\* ------------------------------------------------- _ensure_index_exists --
\* Variant: index_already_exists is raised like any other failure.
EnsureIndexExistsRaisesAll(resp) ==
  IF resp.type = "none" THEN NoError ELSE resp

\* Variant: the except MarqoError clause re-raises without wrapping.
EnsureIndexExistsNoWrap(resp) ==
  IF resp.type = "none" THEN NoError
  ELSE IF resp.type = "MarqoWebError" /\ resp.code = "index_already_exists"
       THEN NoError
  ELSE resp

\* The except dispatch: the exception that leaves _ensure_index_exists for
\* the answer resp of create_index (NoError: the method returns).
EnsureIndexExists(resp) ==
  IF resp.type = "none" THEN NoError
  ELSE IF resp.type = "MarqoWebError"
       THEN IF resp.code = "index_already_exists" THEN NoError ELSE resp
  ELSE IF resp.type = "MarqoError" THEN WrappedMarqoError(resp)
  ELSE resp

\* The answers the service can give to create_index(index_name) when n
\* indexes of that name exist: creation is atomic in the service.
CreateIndexAnswers(n) ==
  (IF n = 0 THEN {NoError} ELSE {MarqoWebError("index_already_exists")})
    \cup CreateFailures

NewManager == [pc |-> "new", index_name |-> None, top_k |-> 0,
               resp |-> NoError, raised |-> NoError]

\* __init__ up to and including the create_index call of
\* _ensure_index_exists; the service answers atomically.
Init_call(m) ==
  /\ mgr[m].pc = "new"
  /\ \E top_k \in TopKDefaults, resp \in CreateIndexAnswers(indexes) :
       /\ mgr' = [mgr EXCEPT ![m] = [pc |-> "creating",
                                     index_name |-> INDEX_NAME,
                                     top_k |-> top_k,
                                     resp |-> resp,
                                     raised |-> NoError]]
       /\ indexes' = IF resp = NoError THEN indexes + 1 ELSE indexes
  /\ UNCHANGED <<docs, searchable, nstores, last>>

\* The rest of _ensure_index_exists: the except clauses; __init__ returns
\* or the exception leaves the constructor.
Init_return(m) ==
  /\ mgr[m].pc = "creating"
  /\ LET e == EnsureIndexExists(mgr[m].resp) IN
       mgr' = [mgr EXCEPT ![m].raised = e,
                          ![m].pc = IF e = NoError THEN "ready" ELSE "failed"]
  /\ UNCHANGED <<indexes, docs, searchable, nstores, last>>

\* ---------------------------------------------------- store_llm_response --
Document(question, answer, rephrased_query) ==
  [question |-> question, answer |-> answer, rephrased_query |-> rephrased_query]

\* Variant: a document equal to a stored one is not added again.
AddDocumentsDedup(d, doc) ==
  IF \E i \in 1..Len(d) : d[i] = doc THEN d ELSE Append(d, doc)

\* Variant: the write replaces the documents of the index.
AddDocumentsReplace(d, doc) == <<doc>>

\* add_documents(documents=[doc], ...): the service appends the document.
AddDocuments(d, doc) == Append(d, doc)

\* Variant: the write is not refreshed into the searchable view.
RefreshedNever(old, newDocs, auto_refresh) == old

\* The searchable view after a write of newDocs: auto_refresh makes the
\* write visible to search before add_documents returns.
Refreshed(old, newDocs, auto_refresh) ==
  IF auto_refresh THEN newDocs ELSE old

\* auto_refresh=True at the call site
AUTO_REFRESH == TRUE

store_llm_response(m) ==
  /\ mgr[m].pc = "ready"
  /\ Len(docs) < MaxDocs
  /\ \E args \in StoreArgs, ok \in BOOLEAN :
       LET doc == Document(args[1], args[2], args[3]) IN
       IF ok
       THEN /\ docs' = AddDocuments(docs, doc)
            /\ searchable' = Refreshed(searchable, docs', AUTO_REFRESH)
            /\ nstores' = nstores + 1
            /\ last' = [op |-> "store", outcome |-> "returned"]
       ELSE \* the write error of the service propagates unchanged
            /\ last' = [op |-> "store", outcome |-> "raised"]
            /\ UNCHANGED <<docs, searchable, nstores>>
  /\ UNCHANGED <<indexes, mgr>>

\* ----------------------------------------------------- get_cached_answer --
\* Variant: the sentinel is sent to the service as it is.
ResolveTopKNoDefault(top_k, self_top_k) == top_k

\* if top_k == -1: top_k = self.top_k
ResolveTopK(top_k, self_top_k) ==
  IF top_k = SENTINEL THEN self_top_k ELSE top_k

\* The keyword arguments of the search call.
SearchRequest(question, limit) ==
  [q |-> question, searchable_attributes |-> <<"rephrased_query">>,
   attributes_to_retrieve |-> <<"answer">>, limit |-> limit, offset |-> 0]

Min(a, b) == IF a < b THEN a ELSE b

\* The hit the service reports for document i of view: its id, the one
\* attribute retrieved and its similarity to the question.
Hit(view, sc, i) ==
  [_id |-> i, answer |-> view[i].answer,
   _score |-> sc[view[i].rephrased_query]]

\* results['hits'] of a search that succeeds: the limit most similar
\* documents of the searchable view (ties broken by the service), listed in
\* an order the service chooses.
SearchHits(view, sc, limit) ==
  LET n == Len(view)
      k == Min(limit, n)
      score(i) == sc[view[i].rephrased_query]
      picks == { s \in [1..k -> 1..n] :
                   /\ \A a, b \in 1..k : a # b => s[a] # s[b]
                   /\ \A j \in 1..n :
                        (\A a \in 1..k : s[a] # j) =>
                          \A a \in 1..k : score(j) <= score(s[a]) }
  IN { [a \in 1..k |-> Hit(view, sc, s[a])] : s \in picks }

QueryError == [type |-> "MarqoWebError", code |-> "query_error"]

\* What index.search(**request) can do: fail (the service rejects a limit
\* below 1, and any call can fail), or return hits.
SearchAnswers(view, sc, request) ==
  {[error |-> QueryError, hits |-> <<>>]} \cup
  (IF request.limit < 1 THEN {}
   ELSE { [error |-> NoError, hits |-> h] :
            h \in SearchHits(view, sc, request.limit) })

\* Variant: the filter admits scores one below the threshold.
filtered_results_off_by_one(hits, score_threshold) ==
  SelectSeq(hits, LAMBDA result : result._score >= score_threshold - 1)

\* Variant: no filter.
filtered_results_none(hits, score_threshold) == hits

\* [result for result in results['hits'] if result['_score'] >= threshold]
filtered_results(hits, score_threshold) ==
  SelectSeq(hits, LAMBDA result : result._score >= score_threshold)

\* Insert x into the descending sequence s behind every element whose
\* score is not smaller: sorted() is stable, also with reverse=True.
InsertDesc(s, x) ==
  LET p == Cardinality({ i \in 1..Len(s) : s[i]._score >= x._score })
  IN SubSeq(s, 1, p) \o <<x>> \o SubSeq(s, p + 1, Len(s))

RECURSIVE SortDesc(_, _)
SortDesc(done, rest) ==
  IF rest = <<>> THEN done
  ELSE SortDesc(InsertDesc(done, Head(rest)), Tail(rest))

\* Variant: the hits stay in the order of the service.
sorted_results_unsorted(filtered) == filtered

\* sorted(filtered_results, key=lambda x: x['_score'], reverse=True)
sorted_results(filtered) == SortDesc(<<>>, filtered)

\* return sorted_results[0]["answer"] if sorted_results else None
ReturnValue(sorted) ==
  IF sorted # <<>> THEN sorted[1].answer ELSE None

\* Lines 78-85 on the hits of a search that succeeded.
SelectAnswer(hits, score_threshold) ==
  ReturnValue(sorted_results(filtered_results(hits, score_threshold)))

\* What a call leaves for the caller: the exception of the search call
\* propagates unchanged, otherwise lines 78-85 decide the return value.
Outcome(results, score_threshold) ==
  [raised |-> results.error,
   result |-> IF results.error = NoError
              THEN SelectAnswer(results.hits, score_threshold)
              ELSE None]

\* The outcomes get_cached_answer(question, score_threshold, top_k) can
\* have on a manager whose self.top_k is self_top_k, when the service
\* searches view and scores the question by sc.
get_cached_answer_outcomes(self_top_k, view, sc, question, score_threshold, top_k) ==
  { Outcome(results, score_threshold) :
      results \in SearchAnswers(view, sc,
                    SearchRequest(question, ResolveTopK(top_k, self_top_k))) }

\* What a later call remembers of the call before it.
Summary(l) == IF l.op = "store" THEN l ELSE [op |-> l.op]

get_cached_answer(m) ==
  /\ mgr[m].pc = "ready"
  /\ \E question \in Questions, score_threshold \in Thresholds,
        top_k \in TopKArgs, sc \in [RephrasedQueries -> Scores] :
       LET request == SearchRequest(question, ResolveTopK(top_k, mgr[m].top_k))
       IN \E results \in SearchAnswers(searchable, sc, request) :
            LET out == Outcome(results, score_threshold) IN
            last' = [op |-> "lookup", m |-> m, prev |-> Summary(last),
                     top_k |-> top_k, score_threshold |-> score_threshold,
                     sc |-> sc, request |-> request,
                     search_error |-> results.error, hits |-> results.hits,
                     raised |-> out.raised, result |-> out.result]
  /\ UNCHANGED <<indexes, docs, searchable, mgr, nstores>>

\* ------------------------------------------------------- specifications --
ReadyManager(top_k) == [pc |-> "ready", index_name |-> INDEX_NAME,
                        top_k |-> top_k, resp |-> NoError, raised |-> NoError]

\* Both managers constructed on an index that holds no document yet.
Init ==
  /\ indexes = 1
  /\ docs = <<>>
  /\ searchable = <<>>
  /\ mgr = [m \in Managers |-> ReadyManager(CtorTopK[m])]
  /\ nstores = 0
  /\ last = [op |-> "none"]

Next ==
  \/ \E m \in Managers : store_llm_response(m)
  \/ \E m \in Managers : get_cached_answer(m)

Spec == Init /\ [][Next]_vars

\* Construction: no manager exists yet; the index may already exist.
InitBoot ==
  /\ indexes \in {0, 1}
  /\ docs = <<>>
  /\ searchable = <<>>
  /\ mgr = [m \in Managers |-> NewManager]
  /\ nstores = 0
  /\ last = [op |-> "none"]

NextBoot ==
  \/ \E m \in Managers : Init_call(m)
  \/ \E m \in Managers : Init_return(m)

SpecBoot == InitBoot /\ [][NextBoot]_vars

\* ================================================================ claims ==
IsLookup == last.op = "lookup"
\* The last call was a get_cached_answer whose search call succeeded.
Returned == IsLookup /\ last.raised = NoError
\* The hits of the last lookup that clear its threshold.
Clearing == { i \in 1..Len(last.hits) :
                last.hits[i]._score >= last.score_threshold }
\* The score the last lookup's question has against document i.
DocScore(i) == last.sc[docs[i].rephrased_query]
AlreadyExists == MarqoWebError("index_already_exists")
Done(m) == mgr[m].pc \in {"ready", "failed"}

\* C1 (threshold guarantee): an answer returned by get_cached_answer is the
\* answer of a hit of the service whose score is >= score_threshold.
C1_ThresholdGuarantee ==
  (Returned /\ last.result # None) =>
    \E i \in Clearing : last.hits[i].answer = last.result

\* A lookup returned an answer although the service also listed a hit below
\* the threshold, ahead of the one that clears it.
C1_Witness ==
  /\ Returned /\ last.result # None
  /\ Len(last.hits) = 2
  /\ last.hits[1]._score < last.score_threshold
  /\ last.hits[1].answer # last.result

\* C2 (top-1 selection): when several hits clear the threshold and one of
\* them scores strictly above all the others, its answer is returned,
\* wherever the service listed it.
C2_TopOneSelection ==
  Returned =>
    \A i \in Clearing :
      ( /\ Cardinality(Clearing) >= 2
        /\ \A j \in 1..Len(last.hits) :
              j # i => last.hits[j]._score < last.hits[i]._score )
      => last.result = last.hits[i].answer

\* Two hits clear the threshold, the service listed the better one second,
\* and the better one's answer is what was returned.
C2_Witness ==
  /\ Returned
  /\ Clearing = {1, 2}
  /\ last.hits[2]._score > last.hits[1]._score
  /\ last.hits[2].answer # last.hits[1].answer
  /\ last.result = last.hits[2].answer

\* C3 (empty on miss): a lookup whose search succeeds and yields no hit
\* with score >= score_threshold returns None and raises nothing.
C3_EmptyOnMiss ==
  (IsLookup /\ last.search_error = NoError /\ Clearing = {})
    => (last.result = None /\ last.raised = NoError)

\* The service listed hits, none of which clears the threshold.
C3_Witness ==
  /\ Returned
  /\ Len(last.hits) >= 1
  /\ Clearing = {}
  /\ last.result = None

\* C6 (cache hit after store): every stored document is searchable in every
\* state, and a lookup whose question scores one document at or above the
\* threshold and strictly above every other document returns that
\* document's answer.
C6_CacheHitAfterStore ==
  /\ searchable = docs
  /\ Returned =>
       \A i \in 1..Len(docs) :
         ( /\ DocScore(i) >= last.score_threshold
           /\ \A j \in 1..Len(docs) : j # i => DocScore(j) < DocScore(i) )
         => last.result = docs[i].answer

\* The lookup follows a store that returned, and the document stored last
\* wins against an older document with another answer.
C6_Witness ==
  /\ Returned
  /\ last.prev = [op |-> "store", outcome |-> "returned"]
  /\ Len(docs) = 2
  /\ DocScore(2) >= last.score_threshold
  /\ DocScore(1) < DocScore(2)
  /\ docs[1].answer # docs[2].answer
  /\ last.result = docs[2].answer

\* C7 (default substitution): a lookup called with top_k = -1 sends the
\* search request of a lookup called with top_k = self.top_k, and has an
\* outcome that call can have; and the other way round.
C7_DefaultSubstitution ==
  IsLookup =>
    LET self_top_k == mgr[last.m].top_k
        outcomes(top_k) ==
          get_cached_answer_outcomes(self_top_k, searchable, last.sc,
                                     last.request.q, last.score_threshold, top_k)
        out == [raised |-> last.raised, result |-> last.result]
    IN /\ last.top_k = SENTINEL =>
            /\ last.request = SearchRequest(last.request.q, self_top_k)
            /\ out \in outcomes(self_top_k)
       /\ last.top_k = self_top_k => out \in outcomes(SENTINEL)

\* A lookup with the sentinel, on the manager whose default is 2, got two
\* hits and returned an answer.
C7_Witness ==
  /\ Returned
  /\ last.top_k = SENTINEL
  /\ mgr[last.m].top_k = 2
  /\ Len(last.hits) = 2
  /\ last.result # None

\* C8 (no dedup): the index holds exactly one document per store that
\* returned, also when the same triple is stored again.
C8_NoDedup ==
  Len(docs) = nstores

\* The same triple was stored twice and is there twice.
C8_Witness ==
  /\ Len(docs) = 2
  /\ docs[1] = docs[2]
  /\ nstores = 2

\* C9 (append-only, read-only lookup): every step keeps the documents
\* stored so far, in place and unchanged; documents change only by a store
\* that returns, which appends one; a lookup changes neither the service
\* nor a manager; no step changes a manager's index_name or top_k.
C9_AppendOnly ==
  [][ /\ Len(docs') >= Len(docs)
      /\ SubSeq(docs', 1, Len(docs)) = docs
      /\ docs' # docs =>
            /\ last'.op = "store" /\ last'.outcome = "returned"
            /\ Len(docs') = Len(docs) + 1
      /\ last'.op = "lookup" =>
            /\ docs' = docs /\ searchable' = searchable
            /\ indexes' = indexes /\ mgr' = mgr
      /\ \A m \in Managers :
            /\ mgr'[m].index_name = mgr[m].index_name
            /\ mgr'[m].top_k = mgr[m].top_k ]_vars

\* A lookup failed after two different documents were stored.
C9_Witness ==
  /\ IsLookup /\ last.raised = QueryError
  /\ Len(docs) = 2
  /\ docs[1] # docs[2]

\* C10 (non-null fields): every stored document has its three fields
\* non-null.
C10_NonNullFields ==
  \A i \in 1..Len(docs) :
    /\ docs[i].question # None
    /\ docs[i].answer # None
    /\ docs[i].rephrased_query # None

\* C4 (idempotent bootstrap): at most one index of the name exists; a
\* construction whose create_index succeeded or was answered with
\* index_already_exists raises nothing; once both managers are constructed
\* the index exists exactly once.
C4_IdempotentBootstrap ==
  /\ indexes <= 1
  /\ \A m \in Managers :
       (Done(m) /\ mgr[m].resp \in {NoError, AlreadyExists})
         => (mgr[m].pc = "ready" /\ mgr[m].raised = NoError)
  /\ (\A m \in Managers : mgr[m].pc = "ready") => indexes = 1

\* Both managers are constructed; one created the index, the other was told
\* that it exists.
C4_Witness ==
  /\ \A m \in Managers : mgr[m].pc = "ready"
  /\ \E m \in Managers : mgr[m].resp = NoError
  /\ \E m \in Managers : mgr[m].resp = AlreadyExists
  /\ indexes = 1

\* C5 as claimed: whatever create_index fails with, other than
\* index_already_exists, construction fails with the wrapping error that
\* carries the failure as its cause.
C5_AlwaysWrapped ==
  \A m \in Managers :
    (Done(m) /\ mgr[m].resp \in CreateFailures)
      => (mgr[m].pc = "failed" /\ mgr[m].raised = WrappedMarqoError(mgr[m].resp))

\* C5 as amended: construction never succeeds on such a failure; a failure
\* that is a MarqoError but no MarqoWebError is wrapped, with the failure as
\* the cause; a MarqoWebError with another code is raised as it is.
C5_WrappedUnlessWebError ==
  \A m \in Managers :
    (Done(m) /\ mgr[m].resp \in CreateFailures)
      => /\ mgr[m].pc = "failed"
         /\ mgr[m].resp.type = "MarqoError"
              => mgr[m].raised = WrappedMarqoError(mgr[m].resp)
         /\ mgr[m].resp.type = "MarqoWebError"
              => mgr[m].raised = mgr[m].resp

\* A construction failed with the wrapping error around a client error.
C5_Witness ==
  \E m \in Managers :
    /\ mgr[m].pc = "failed"
    /\ mgr[m].resp = MarqoError("backend")
    /\ mgr[m].raised = WrappedMarqoError(MarqoError("backend"))

====
